---- MODULE Spec2Model ----
(***************************************************************************)
(* Model of src/visitor.rs of graphql-parser: the three pull iterators     *)
(* FieldIter, DocumentFieldIter and SetDirectiveIter over a parsed query   *)
(* Document.                                                               *)
(*                                                                         *)
(* A node of the tree is named by its path: <<d>> is the SelectionSet of   *)
(* Definition d of the document, <<d, i>> is the i-th Selection of that    *)
(* set, <<d, i, j>> the j-th Selection of the nested set of <<d, i>>, ...  *)
(* A reference &'a Field is the path of the Field, a reference             *)
(* &'a Directive is the pair <<path of the owner, index in its list>>, and *)
(* a slice::Iter is the path of the slice's owner with the index of the    *)
(* next element.                                                           *)
(***************************************************************************)
EXTENDS Integers, Sequences, FiniteSets, TLC

\* Total number of definitions, selections and directives of a generated document.
MaxSize == 4

\* Size of the generated documents that several engines walk at the same time.
MaxSharedSize == 3

\* Times the caller builds an engine of one kind over one root.
MaxRuns == 2

\* next() calls the caller makes on an engine that has signalled end.
MaxEndCalls == 2

\* Option<_>: None, or Some(x).
None == <<>>
Some(x) == <<x>>
Unwrap(o) == o[1]

\* Names given to the generated fields and directives.
FieldNames == {"id"}
DirectiveNames == {"skip"}

(***************************************************************************)
(* The tree types (crate::query), as far as the visitor reads them.        *)
(***************************************************************************)
Directive(n) == [name |-> n]

SelectionSet(its) == [items |-> its]

Field(n, dirs, ss) ==
    [kind |-> "Field", name |-> n, directives |-> dirs, selection_set |-> ss]

InlineFragment(dirs, ss) ==
    [kind |-> "InlineFragment", directives |-> dirs, selection_set |-> ss]

FragmentSpread(dirs) ==
    [kind |-> "FragmentSpread", directives |-> dirs]

Definition(k, ss) == [kind |-> k, selection_set |-> ss]

Document(defs) == [definitions |-> defs]

\* The directive lists with n directives.
DirectiveLists(n) == [1..n -> {Directive(d) : d \in DirectiveNames}]

RECURSIVE SelectionsOfSize(_), SelectionSetsOfSize(_)
\* The selections made of n nodes (the selection, its directives, its descendants).
SelectionsOfSize(n) ==
    UNION {
        {Field(f, dirs, ss) :
            f \in FieldNames, dirs \in DirectiveLists(d),
            ss \in SelectionSetsOfSize(n - 1 - d)}
        \cup {InlineFragment(dirs, ss) :
            dirs \in DirectiveLists(d), ss \in SelectionSetsOfSize(n - 1 - d)}
        : d \in 0..(n - 1)}
    \cup {FragmentSpread(dirs) : dirs \in DirectiveLists(n - 1)}

\* The selection sets made of n nodes.
SelectionSetsOfSize(n) ==
    IF n = 0 THEN {SelectionSet(<<>>)}
    ELSE UNION {
        {SelectionSet(<<s>> \o rest.items) :
            s \in SelectionsOfSize(k), rest \in SelectionSetsOfSize(n - k)}
        : k \in 1..n}

RECURSIVE DefinitionListsOfSize(_)
\* The definition lists made of n nodes (a definition counts as one node).
DefinitionListsOfSize(n) ==
    IF n = 0 THEN {<<>>}
    ELSE UNION {
        {<<Definition(kd, ss)>> \o rest :
            kd \in {"Operation", "Fragment"},
            ss \in SelectionSetsOfSize(k - 1),
            rest \in DefinitionListsOfSize(n - k)}
        : k \in 1..n}

\* The query of test_field_iter: query TestQuery { users { id country { id } } }.
TestFieldIterDocument ==
    Document(<<Definition("Operation", SelectionSet(<<
        Field("users", <<>>, SelectionSet(<<
            Field("id", <<>>, SelectionSet(<<>>)),
            Field("country", <<>>, SelectionSet(<<
                Field("id", <<>>, SelectionSet(<<>>))>>))>>))>>))>>)

\* The query of test_dir_iter: id carries @skip and country carries @include.
TestDirIterDocument ==
    Document(<<Definition("Operation", SelectionSet(<<
        Field("users", <<>>, SelectionSet(<<
            Field("id", <<Directive("skip")>>, SelectionSet(<<>>)),
            Field("country", <<Directive("include")>>, SelectionSet(<<
                Field("id", <<>>, SelectionSet(<<>>))>>))>>))>>))>>)

\* A query and a fragment that use every kind of selection, with directives
\* on a parent, on its child and on a later sibling:
\*   query { a @skip @include { ... @skip { b @include } ...F @skip @include } c }
\*   fragment F { ...G d @skip { e } }
MixedDocument ==
    Document(<<
        Definition("Operation", SelectionSet(<<
            Field("a", <<Directive("skip"), Directive("include")>>, SelectionSet(<<
                InlineFragment(<<Directive("skip")>>, SelectionSet(<<
                    Field("b", <<Directive("include")>>, SelectionSet(<<>>))>>)),
                FragmentSpread(<<Directive("skip"), Directive("include")>>)>>)),
            Field("c", <<>>, SelectionSet(<<>>))>>)),
        Definition("Fragment", SelectionSet(<<
            FragmentSpread(<<>>),
            Field("d", <<Directive("skip")>>, SelectionSet(<<
                Field("e", <<>>, SelectionSet(<<>>))>>))>>))>>)

ScenarioDocuments == {TestFieldIterDocument, TestDirIterDocument, MixedDocument}

\* The documents made of at most max nodes.
GeneratedDocuments(max) ==
    UNION {{Document(defs) : defs \in DefinitionListsOfSize(n)} : n \in 0..max}

VARIABLES
    doc,                \* the parsed Document the iterators borrow
    shared,             \* whether the caller holds several engines at a time
    field_iter,         \* Some(FieldIter) the caller holds, or None
    doc_field_iter,     \* Some(DocumentFieldIter) the caller holds, or None
    set_directive_iter, \* Some(SetDirectiveIter) the caller holds, or None
    field_run,          \* what the caller has seen of field_iter
    doc_run,            \* what the caller has seen of doc_field_iter
    dir_run             \* what the caller has seen of set_directive_iter

vars ==
    <<doc, shared, field_iter, doc_field_iter, set_directive_iter, field_run, doc_run, dir_run>>

(***************************************************************************)
(* References into the borrowed tree.                                      *)
(***************************************************************************)
Front(p) == SubSeq(p, 1, Len(p) - 1)

RECURSIVE SetAt(_)
\* The SelectionSet a path owns: a definition's body or a selection's nested set.
SetAt(p) ==
    IF Len(p) = 1 THEN doc.definitions[p[1]].selection_set
    ELSE SetAt(Front(p)).items[p[Len(p)]].selection_set

\* The Selection at a path.
NodeAt(p) == SetAt(Front(p)).items[p[Len(p)]]

\* slice.iter(): a cursor at the first element of the slice that `owner` owns.
SliceIter(owner) == [slice |-> owner, pos |-> 1]

(***************************************************************************)
(* FieldIter                                                               *)
(***************************************************************************)
\* FieldIterNew over the body of the first definition, whatever set is given.
FieldIterNewFirstDefinition(v) == [stack |-> <<SliceIter(<<1>>)>>]

\* FieldIterNew that takes over the stack of the FieldIter the caller holds.
FieldIterNewResume(v) ==
    [stack |-> IF field_iter = None THEN <<SliceIter(v)>> ELSE Unwrap(field_iter).stack]

\* FieldIter::new
FieldIterNew(v) == [stack |-> <<SliceIter(v)>>]

\* FieldIterStep with the nested frame of a Field or InlineFragment inserted
\* at the bottom of the stack instead of pushed on top.
FieldIterStepInsertBottom(stack) ==
    LET n == Len(stack)
        top == stack[n]
        items == SetAt(top.slice).items
    IN  IF top.pos > Len(items)
        THEN [stack |-> Front(stack), returns |-> FALSE, result |-> None]
        ELSE LET f == Append(top.slice, top.pos)
                 advanced == [stack EXCEPT ![n].pos = top.pos + 1]
             IN  CASE items[top.pos].kind = "Field" ->
                        [stack |-> <<SliceIter(f)>> \o advanced,
                         returns |-> TRUE, result |-> Some(f)]
                   [] items[top.pos].kind = "InlineFragment" ->
                        [stack |-> <<SliceIter(f)>> \o advanced,
                         returns |-> FALSE, result |-> None]
                   [] items[top.pos].kind = "FragmentSpread" ->
                        [stack |-> advanced, returns |-> FALSE, result |-> None]

\* FieldIterStep with the cursor of the top frame left on a Field it yields.
FieldIterStepNoAdvance(stack) ==
    LET n == Len(stack)
        top == stack[n]
        items == SetAt(top.slice).items
    IN  IF top.pos > Len(items)
        THEN [stack |-> Front(stack), returns |-> FALSE, result |-> None]
        ELSE LET f == Append(top.slice, top.pos)
                 advanced == [stack EXCEPT ![n].pos = top.pos + 1]
             IN  CASE items[top.pos].kind = "Field" ->
                        [stack |-> Append(stack, SliceIter(f)),
                         returns |-> TRUE, result |-> Some(f)]
                   [] items[top.pos].kind = "InlineFragment" ->
                        [stack |-> Append(advanced, SliceIter(f)),
                         returns |-> FALSE, result |-> None]
                   [] items[top.pos].kind = "FragmentSpread" ->
                        [stack |-> advanced, returns |-> FALSE, result |-> None]

\* FieldIterStep with the bottom frame, once exhausted, rewound to its start
\* as end is signalled.
FieldIterStepRewind(stack) ==
    LET n == Len(stack)
        top == stack[n]
        items == SetAt(top.slice).items
    IN  IF top.pos > Len(items)
        THEN IF n = 1
             THEN [stack |-> <<SliceIter(top.slice)>>, returns |-> TRUE, result |-> None]
             ELSE [stack |-> Front(stack), returns |-> FALSE, result |-> None]
        ELSE LET f == Append(top.slice, top.pos)
                 advanced == [stack EXCEPT ![n].pos = top.pos + 1]
             IN  CASE items[top.pos].kind = "Field" ->
                        [stack |-> Append(advanced, SliceIter(f)),
                         returns |-> TRUE, result |-> Some(f)]
                   [] items[top.pos].kind = "InlineFragment" ->
                        [stack |-> Append(advanced, SliceIter(f)),
                         returns |-> FALSE, result |-> None]
                   [] items[top.pos].kind = "FragmentSpread" ->
                        [stack |-> advanced, returns |-> FALSE, result |-> None]

\* FieldIterStep with a FragmentSpread yielded like a Field without a nested set.
FieldIterStepYieldSpread(stack) ==
    LET n == Len(stack)
        top == stack[n]
        items == SetAt(top.slice).items
    IN  IF top.pos > Len(items)
        THEN [stack |-> Front(stack), returns |-> FALSE, result |-> None]
        ELSE LET f == Append(top.slice, top.pos)
                 advanced == [stack EXCEPT ![n].pos = top.pos + 1]
             IN  CASE items[top.pos].kind = "Field" ->
                        [stack |-> Append(advanced, SliceIter(f)),
                         returns |-> TRUE, result |-> Some(f)]
                   [] items[top.pos].kind = "InlineFragment" ->
                        [stack |-> Append(advanced, SliceIter(f)),
                         returns |-> FALSE, result |-> None]
                   [] items[top.pos].kind = "FragmentSpread" ->
                        [stack |-> advanced, returns |-> TRUE, result |-> Some(f)]

\* FieldIterStep with an InlineFragment skipped like a FragmentSpread.
FieldIterStepSkipInline(stack) ==
    LET n == Len(stack)
        top == stack[n]
        items == SetAt(top.slice).items
    IN  IF top.pos > Len(items)
        THEN [stack |-> Front(stack), returns |-> FALSE, result |-> None]
        ELSE LET f == Append(top.slice, top.pos)
                 advanced == [stack EXCEPT ![n].pos = top.pos + 1]
             IN  CASE items[top.pos].kind = "Field" ->
                        [stack |-> Append(advanced, SliceIter(f)),
                         returns |-> TRUE, result |-> Some(f)]
                   [] items[top.pos].kind = "InlineFragment" ->
                        [stack |-> advanced, returns |-> FALSE, result |-> None]
                   [] items[top.pos].kind = "FragmentSpread" ->
                        [stack |-> advanced, returns |-> FALSE, result |-> None]

\* One pass of the body of `while !stack.is_empty()` in FieldIter::next.
FieldIterStep(stack) ==
    LET n == Len(stack)
        top == stack[n]
        items == SetAt(top.slice).items
    IN  IF top.pos > Len(items)
        THEN [stack |-> Front(stack), returns |-> FALSE, result |-> None]
        ELSE LET f == Append(top.slice, top.pos)
                 advanced == [stack EXCEPT ![n].pos = top.pos + 1]
             IN  CASE items[top.pos].kind = "Field" ->
                        [stack |-> Append(advanced, SliceIter(f)),
                         returns |-> TRUE, result |-> Some(f)]
                   [] items[top.pos].kind = "InlineFragment" ->
                        [stack |-> Append(advanced, SliceIter(f)),
                         returns |-> FALSE, result |-> None]
                   [] items[top.pos].kind = "FragmentSpread" ->
                        [stack |-> advanced, returns |-> FALSE, result |-> None]

RECURSIVE FieldIterLoop(_, _)
\* The while loop of FieldIter::next; work counts the passes made. (The pass
\* s is bound as the element of a set, which has it evaluated once.)
FieldIterLoop(stack, work) ==
    IF stack = <<>>
    THEN [iter |-> [stack |-> stack], result |-> None, work |-> work]
    ELSE CHOOSE r \in
            {IF s.returns
             THEN [iter |-> [stack |-> s.stack], result |-> s.result, work |-> work + 1]
             ELSE FieldIterLoop(s.stack, work + 1)
             : s \in {FieldIterStep(stack)}} : TRUE

\* FieldIter::next
FieldIterNext(it) == FieldIterLoop(it.stack, 0)

(***************************************************************************)
(* DocumentFieldIter                                                       *)
(***************************************************************************)
\* DocumentFieldIterNew that builds the sub-engine of the first definition at once.
DocumentFieldIterNewEager ==
    IF doc.definitions = <<>> THEN [doc_iter |-> SliceIter(<<>>), field_iter |-> None]
    ELSE [doc_iter |-> [SliceIter(<<>>) EXCEPT !.pos = @ + 1],
          field_iter |-> Some(FieldIterNew(<<1>>))]

\* DocumentFieldIter::new
DocumentFieldIterNew == [doc_iter |-> SliceIter(<<>>), field_iter |-> None]

\* DefinitionSelectionSet with a Fragment definition ending the walk.
DefinitionSelectionSetOperationOnly(doc_iter) ==
    IF doc_iter.pos > Len(doc.definitions) THEN None
    ELSE CASE doc.definitions[doc_iter.pos].kind = "Operation" -> Some(<<doc_iter.pos>>)
           [] doc.definitions[doc_iter.pos].kind = "Fragment" -> None

\* The match on self.doc_iter.next() in DocumentFieldIter::next: the
\* SelectionSet of the definition the cursor is at, or None at the end.
DefinitionSelectionSet(doc_iter) ==
    IF doc_iter.pos > Len(doc.definitions) THEN None
    ELSE CASE doc.definitions[doc_iter.pos].kind = "Operation" -> Some(<<doc_iter.pos>>)
           [] doc.definitions[doc_iter.pos].kind = "Fragment" -> Some(<<doc_iter.pos>>)

RECURSIVE DocumentFieldIterLoop(_, _)
\* The loop of DocumentFieldIter::next; built counts the sub-engines constructed.
\* (sub is what self.field_iter's next() gives and ss what the match on
\* self.doc_iter.next() gives; each is bound as the element of a set, which
\* has it evaluated once.)
DocumentFieldIterLoop(it, built) ==
    CHOOSE r \in
        {IF sub.result # None
         THEN [iter |-> [it EXCEPT !.field_iter = Some(sub.iter)],
               result |-> sub.result, built |-> built]
         ELSE IF ss = None
              THEN [iter |-> [it EXCEPT !.field_iter = None],
                    result |-> None, built |-> built]
              ELSE DocumentFieldIterLoop(
                     [doc_iter |-> [it.doc_iter EXCEPT !.pos = @ + 1],
                      field_iter |-> Some(FieldIterNew(Unwrap(ss)))],
                     built + 1)
         : sub \in {IF it.field_iter = None THEN [result |-> None]
                    ELSE FieldIterNext(Unwrap(it.field_iter))},
           ss \in {DefinitionSelectionSet(it.doc_iter)}} : TRUE

\* DocumentFieldIter::next
DocumentFieldIterNext(it) == DocumentFieldIterLoop(it, 0)

(***************************************************************************)
(* SetDirectiveIter                                                        *)
(***************************************************************************)
\* SetDirectiveIter::new
SetDirectiveIterNew(v) == [stack |-> <<SliceIter(v)>>, directive_iter |-> None]

\* SetDirectiveIterStep with the nested frame of a Field or InlineFragment
\* inserted at the bottom of the stack instead of pushed on top.
SetDirectiveIterStepInsertBottom(stack) ==
    LET n == Len(stack)
        top == stack[n]
        items == SetAt(top.slice).items
    IN  IF top.pos > Len(items)
        THEN [stack |-> Front(stack), enters |-> None]
        ELSE LET f == Append(top.slice, top.pos)
                 advanced == [stack EXCEPT ![n].pos = top.pos + 1]
             IN  CASE items[top.pos].kind = "Field" ->
                        [stack |-> <<SliceIter(f)>> \o advanced, enters |-> Some(f)]
                   [] items[top.pos].kind = "InlineFragment" ->
                        [stack |-> <<SliceIter(f)>> \o advanced, enters |-> Some(f)]
                   [] items[top.pos].kind = "FragmentSpread" ->
                        [stack |-> advanced, enters |-> Some(f)]

\* SetDirectiveIterStep that treats an InlineFragment as a FragmentSpread: its
\* directives become the cursor, its nested set is not pushed.
SetDirectiveIterStepSkipInline(stack) ==
    LET n == Len(stack)
        top == stack[n]
        items == SetAt(top.slice).items
    IN  IF top.pos > Len(items)
        THEN [stack |-> Front(stack), enters |-> None]
        ELSE LET f == Append(top.slice, top.pos)
                 advanced == [stack EXCEPT ![n].pos = top.pos + 1]
             IN  CASE items[top.pos].kind = "Field" ->
                        [stack |-> Append(advanced, SliceIter(f)), enters |-> Some(f)]
                   [] items[top.pos].kind = "InlineFragment" ->
                        [stack |-> advanced, enters |-> Some(f)]
                   [] items[top.pos].kind = "FragmentSpread" ->
                        [stack |-> advanced, enters |-> Some(f)]

\* One pass of the body of `while !stack.is_empty()` in SetDirectiveIter::next.
\* enters holds the selection whose directives become the cursor.
SetDirectiveIterStep(stack) ==
    LET n == Len(stack)
        top == stack[n]
        items == SetAt(top.slice).items
    IN  IF top.pos > Len(items)
        THEN [stack |-> Front(stack), enters |-> None]
        ELSE LET f == Append(top.slice, top.pos)
                 advanced == [stack EXCEPT ![n].pos = top.pos + 1]
             IN  CASE items[top.pos].kind = "Field" ->
                        [stack |-> Append(advanced, SliceIter(f)), enters |-> Some(f)]
                   [] items[top.pos].kind = "InlineFragment" ->
                        [stack |-> Append(advanced, SliceIter(f)), enters |-> Some(f)]
                   [] items[top.pos].kind = "FragmentSpread" ->
                        [stack |-> advanced, enters |-> Some(f)]

\* The `if let` at the head of 'outer: the cursor's next directive, if it has one.
DirectiveIterHasNext(directive_iter) ==
    /\ directive_iter # None
    /\ Unwrap(directive_iter).pos <= Len(NodeAt(Unwrap(directive_iter).slice).directives)

RECURSIVE SetDirectiveIterOuter(_, _, _), SetDirectiveIterInner(_, _, _)
\* SetDirectiveIterOuter returning whatever the cursor's next() gives, None too,
\* as long as there is a cursor.
SetDirectiveIterOuterReturnCursor(it, work, entered) ==
    IF it.directive_iter # None
    THEN LET c == Unwrap(it.directive_iter)
         IN  IF DirectiveIterHasNext(it.directive_iter)
             THEN [iter |-> [it EXCEPT !.directive_iter = Some([c EXCEPT !.pos = @ + 1])],
                   result |-> Some(<<c.slice, c.pos>>), work |-> work,
                   entered |-> entered]
             ELSE [iter |-> it, result |-> None, work |-> work, entered |-> entered]
    ELSE SetDirectiveIterInner(it.stack, work, entered)

\* SetDirectiveIterOuter that pops the top frame, when it is exhausted, as it
\* returns a directive of the cursor.
SetDirectiveIterOuterEagerPop(it, work, entered) ==
    IF DirectiveIterHasNext(it.directive_iter)
    THEN LET c == Unwrap(it.directive_iter)
             top == it.stack[Len(it.stack)]
             popped == IF top.pos > Len(SetAt(top.slice).items)
                       THEN Front(it.stack) ELSE it.stack
         IN  [iter |-> [stack |-> popped,
                        directive_iter |-> Some([c EXCEPT !.pos = @ + 1])],
              result |-> Some(<<c.slice, c.pos>>), work |-> work, entered |-> entered]
    ELSE SetDirectiveIterInner(it.stack, work, entered)

\* The loop 'outer of SetDirectiveIter::next.
SetDirectiveIterOuter(it, work, entered) ==
    IF DirectiveIterHasNext(it.directive_iter)
    THEN LET c == Unwrap(it.directive_iter)
         IN  [iter |-> [it EXCEPT !.directive_iter = Some([c EXCEPT !.pos = @ + 1])],
              result |-> Some(<<c.slice, c.pos>>), work |-> work, entered |-> entered]
    ELSE SetDirectiveIterInner(it.stack, work, entered)

\* The while loop of SetDirectiveIter::next, entered after directive_iter.take().
\* (The pass s is bound as the element of a set, which has it evaluated once.)
SetDirectiveIterInner(stack, work, entered) ==
    IF stack = <<>>
    THEN [iter |-> [stack |-> stack, directive_iter |-> None],
          result |-> None, work |-> work, entered |-> entered]
    ELSE CHOOSE r \in
            {IF s.enters # None
             THEN SetDirectiveIterOuter(
                    [stack |-> s.stack, directive_iter |-> Some(SliceIter(Unwrap(s.enters)))],
                    work + 1, Append(entered, Unwrap(s.enters)))
             ELSE SetDirectiveIterInner(s.stack, work + 1, entered)
             : s \in {SetDirectiveIterStep(stack)}} : TRUE

\* SetDirectiveIter::next
SetDirectiveIterNext(it) == SetDirectiveIterOuter(it, 0, <<>>)

(***************************************************************************)
(* The caller: Visit::visit builds an engine, and the caller pulls from it *)
(* with next(). A run records what the caller has seen of the engine it    *)
(* holds: the root it was built over, the items yielded so far (out), the  *)
(* number of calls that signalled end (nones), the result of the last call *)
(* (last), the output of the finished run before this one over the same    *)
(* root (prev), what the last call did (work, built, entered), and the     *)
(* passes of all the calls of the run together (passes).                   *)
(***************************************************************************)
NoRun ==
    [root |-> <<>>, run |-> 0, out |-> <<>>, nones |-> 0, last |-> None,
     prev |-> None, work |-> 0, built |-> 0, entered |-> <<>>, passes |-> 0,
     installed |-> <<>>]

FirstRun(root) == [NoRun EXCEPT !.root = root, !.run = 1]

AgainRun(old) == [FirstRun(old.root) EXCEPT !.run = old.run + 1, !.prev = Some(old.out)]

\* The run after a next() call that returned r.
Pulled(run, r) ==
    [run EXCEPT !.out = IF r.result = None THEN @ ELSE Append(@, Unwrap(r.result)),
                !.nones = IF r.result = None THEN @ + 1 ELSE @,
                !.last = r.result]

\* Whether the caller may build one more engine.
MayVisit ==
    shared \/ (field_iter = None /\ doc_field_iter = None /\ set_directive_iter = None)

Roots == {<<d>> : d \in 1..Len(doc.definitions)}

NoEngines ==
    /\ field_iter = None
    /\ doc_field_iter = None
    /\ set_directive_iter = None
    /\ field_run = NoRun
    /\ doc_run = NoRun
    /\ dir_run = NoRun

\* One engine at a time over a parsed document.
Init ==
    /\ doc \in GeneratedDocuments(MaxSize) \cup ScenarioDocuments
    /\ shared = FALSE
    /\ NoEngines

\* Several engines at a time over a parsed document.
InitShared ==
    /\ doc \in GeneratedDocuments(MaxSharedSize) \cup ScenarioDocuments
    /\ shared = TRUE
    /\ NoEngines

\* selection_set.visit::<Field>()
VisitField(v) ==
    /\ field_iter = None
    /\ MayVisit
    /\ field_iter' = Some(FieldIterNew(v))
    /\ field_run' = FirstRun(v)
    /\ UNCHANGED <<doc, shared, doc_field_iter, set_directive_iter, doc_run, dir_run>>

\* selection_set.visit::<Field>() once more, after the engine held has ended
RevisitField ==
    /\ field_iter # None
    /\ field_run.nones > 0
    /\ field_run.run < MaxRuns
    /\ field_iter' = Some(FieldIterNew(field_run.root))
    /\ field_run' = AgainRun(field_run)
    /\ UNCHANGED <<doc, shared, doc_field_iter, set_directive_iter, doc_run, dir_run>>

\* FieldNext with the frames kept in a buffer that the SetDirectiveIter the
\* caller holds uses too: the call leaves its stack in that engine as well.
FieldNextSharedStack ==
    /\ field_iter # None
    /\ field_run.nones < MaxEndCalls
    /\ LET r == FieldIterNext(Unwrap(field_iter))
       IN  /\ field_iter' = Some(r.iter)
           /\ field_run' = [Pulled(field_run, r) EXCEPT !.work = r.work,
                                                        !.passes = @ + r.work]
           /\ set_directive_iter' =
                 IF set_directive_iter = None THEN None
                 ELSE Some([Unwrap(set_directive_iter) EXCEPT !.stack = r.iter.stack])
    /\ UNCHANGED <<doc, shared, doc_field_iter, doc_run, dir_run>>

\* FieldIter::next
FieldNext ==
    /\ field_iter # None
    /\ field_run.nones < MaxEndCalls
    /\ LET r == FieldIterNext(Unwrap(field_iter))
       IN  /\ field_iter' = Some(r.iter)
           /\ field_run' = [Pulled(field_run, r) EXCEPT !.work = r.work,
                                                        !.passes = @ + r.work]
    /\ UNCHANGED <<doc, shared, doc_field_iter, set_directive_iter, doc_run, dir_run>>

\* document.visit::<Field>()
VisitDocument ==
    /\ doc_field_iter = None
    /\ MayVisit
    /\ doc_field_iter' = Some(DocumentFieldIterNew)
    /\ doc_run' = FirstRun(<<>>)
    /\ UNCHANGED <<doc, shared, field_iter, set_directive_iter, field_run, dir_run>>

\* document.visit::<Field>() once more, after the engine held has ended
RevisitDocument ==
    /\ doc_field_iter # None
    /\ doc_run.nones > 0
    /\ doc_run.run < MaxRuns
    /\ doc_field_iter' = Some(DocumentFieldIterNew)
    /\ doc_run' = AgainRun(doc_run)
    /\ UNCHANGED <<doc, shared, field_iter, set_directive_iter, field_run, dir_run>>

\* DocumentFieldIter::next
DocumentNext ==
    /\ doc_field_iter # None
    /\ doc_run.nones < MaxEndCalls
    /\ LET r == DocumentFieldIterNext(Unwrap(doc_field_iter))
       IN  /\ doc_field_iter' = Some(r.iter)
           /\ doc_run' = [Pulled(doc_run, r) EXCEPT !.built = r.built]
    /\ UNCHANGED <<doc, shared, field_iter, set_directive_iter, field_run, dir_run>>

\* selection_set.visit::<Directive>()
VisitDirective(v) ==
    /\ set_directive_iter = None
    /\ MayVisit
    /\ set_directive_iter' = Some(SetDirectiveIterNew(v))
    /\ dir_run' = FirstRun(v)
    /\ UNCHANGED <<doc, shared, field_iter, doc_field_iter, field_run, doc_run>>

\* selection_set.visit::<Directive>() once more, after the engine held has ended
RevisitDirective ==
    /\ set_directive_iter # None
    /\ dir_run.nones > 0
    /\ dir_run.run < MaxRuns
    /\ set_directive_iter' = Some(SetDirectiveIterNew(dir_run.root))
    /\ dir_run' = AgainRun(dir_run)
    /\ UNCHANGED <<doc, shared, field_iter, doc_field_iter, field_run, doc_run>>

\* SetDirectiveIter::next
DirectiveNext ==
    /\ set_directive_iter # None
    /\ dir_run.nones < MaxEndCalls
    /\ LET r == SetDirectiveIterNext(Unwrap(set_directive_iter))
       IN  /\ set_directive_iter' = Some(r.iter)
           /\ dir_run' = [Pulled(dir_run, r) EXCEPT !.work = r.work,
                                                    !.entered = r.entered,
                                                    !.passes = @ + r.work,
                                                    !.installed = @ \o r.entered]
    /\ UNCHANGED <<doc, shared, field_iter, doc_field_iter, field_run, doc_run>>

Next ==
    \/ \E v \in Roots : VisitField(v)
    \/ RevisitField
    \/ FieldNext
    \/ VisitDocument
    \/ RevisitDocument
    \/ DocumentNext
    \/ \E v \in Roots : VisitDirective(v)
    \/ RevisitDirective
    \/ DirectiveNext

Spec == Init /\ [][Next]_vars

SpecShared == InitShared /\ [][Next]_vars

\* The caller keeps calling next() on an engine it holds.
FairSpec ==
    /\ Spec
    /\ WF_vars(FieldNext)
    /\ WF_vars(DocumentNext)
    /\ WF_vars(DirectiveNext)

(***************************************************************************)
(* Reference definitions the properties are stated with.                   *)
(***************************************************************************)
\* Whether the engine a run belongs to has signalled end.
Ended(run) == run.nones > 0

\* Whether next() has been called on the engine a run belongs to.
Called(run) == Len(run.out) + run.nones > 0

IsPrefix(s, t) == Len(s) <= Len(t) /\ s = SubSeq(t, 1, Len(s))

NoDuplicates(s) == \A i, j \in 1..Len(s) : s[i] = s[j] => i = j

Range(s) == {s[i] : i \in 1..Len(s)}

\* Document order of two nodes: an ancestor comes before its descendants, and
\* otherwise the node under the earlier sibling comes first.
PathLess(p, q) ==
    \/ Len(p) < Len(q) /\ p = SubSeq(q, 1, Len(p))
    \/ \E k \in 1..Len(p) :
        /\ k <= Len(q)
        /\ SubSeq(p, 1, k - 1) = SubSeq(q, 1, k - 1)
        /\ p[k] < q[k]

RECURSIVE FieldsFrom(_, _)
\* The recursive pre-order listing of the Fields of the selections i, i+1, ...
\* of the set at p.
FieldsFrom(p, i) ==
    IF i > Len(SetAt(p).items) THEN <<>>
    ELSE LET q == Append(p, i)
             here == CASE NodeAt(q).kind = "Field" -> <<q>> \o FieldsFrom(q, 1)
                       [] NodeAt(q).kind = "InlineFragment" -> FieldsFrom(q, 1)
                       [] NodeAt(q).kind = "FragmentSpread" -> <<>>
         IN  here \o FieldsFrom(p, i + 1)

PreOrderFields(p) == FieldsFrom(p, 1)

RECURSIVE SelectionsUnder(_)
\* Every selection reachable from the set at p through nested sets.
SelectionsUnder(p) ==
    UNION {
        {Append(p, i)} \cup
            (IF NodeAt(Append(p, i)).kind = "FragmentSpread" THEN {}
             ELSE SelectionsUnder(Append(p, i)))
        : i \in 1..Len(SetAt(p).items)}

FieldsUnder(p) == {q \in SelectionsUnder(p) : NodeAt(q).kind = "Field"}

Names(paths) == [i \in 1..Len(paths) |-> NodeAt(paths[i]).name]

RECURSIVE Drain(_, _)
\* The items a FieldIter yields from its present state until it signals end.
Drain(it, out) ==
    LET r == FieldIterNext(it)
    IN  IF r.result = None THEN out ELSE Drain(r.iter, Append(out, Unwrap(r.result)))

\* The output of a fresh FieldIter over the set at v.
FieldIterOutput(v) == Drain(FieldIterNew(v), <<>>)

RECURSIVE ConcatOutputs(_)
\* The outputs of a FieldIter over the first d definitions, one after another.
ConcatOutputs(d) ==
    IF d = 0 THEN <<>> ELSE ConcatOutputs(d - 1) \o FieldIterOutput(<<d>>)

(***************************************************************************)
(* Properties                                                              *)
(***************************************************************************)
\* C1: what a FieldIter has yielded is always a prefix of the recursive
\* pre-order listing of its root (Field before its nested Fields, an
\* InlineFragment replaced by the Fields of its set, nothing for a
\* FragmentSpread), it is the whole listing once the engine has signalled end,
\* every yielded Field comes before the Fields yielded after it in document
\* order, and the query of test_field_iter gives [users, id, country, id].
C1_FieldIterPreOrder ==
    field_iter # None =>
        /\ IsPrefix(field_run.out, PreOrderFields(field_run.root))
        /\ Ended(field_run) => field_run.out = PreOrderFields(field_run.root)
        /\ \A i, j \in 1..Len(field_run.out) :
              i < j => PathLess(field_run.out[i], field_run.out[j])
        /\ (doc = TestFieldIterDocument /\ Ended(field_run)) =>
              Names(field_run.out) = <<"users", "id", "country", "id">>

C1_Witness ==
    /\ doc = TestFieldIterDocument
    /\ Ended(field_run)
    /\ field_run.out = <<<<1, 1>>, <<1, 1, 1>>, <<1, 1, 2>>, <<1, 1, 2, 1>>>>

\* C2: a FieldIter that has signalled end has yielded every Field reachable
\* from its root through Field and InlineFragment nesting, each exactly once,
\* and nothing else; no FragmentSpread is ever among the yielded items.
C2_FieldIterExactlyOnce ==
    field_iter # None =>
        /\ NoDuplicates(field_run.out)
        /\ Range(field_run.out) \subseteq FieldsUnder(field_run.root)
        /\ Ended(field_run) =>
              /\ Range(field_run.out) = FieldsUnder(field_run.root)
              /\ Len(field_run.out) = Cardinality(FieldsUnder(field_run.root))

C2_Witness ==
    /\ doc = MixedDocument
    /\ Ended(field_run)
    /\ field_run.root = <<1>>
    /\ field_run.out = <<<<1, 1>>, <<1, 1, 1, 1>>, <<1, 2>>>>

\* C3: a DocumentFieldIter that has signalled end has yielded the outputs of a
\* FieldIter over the SelectionSet of each Definition, Operation or Fragment,
\* one after another in Definition order; before that it has yielded a prefix.
C3_DocumentConcatenation ==
    doc_field_iter # None =>
        /\ IsPrefix(doc_run.out, ConcatOutputs(Len(doc.definitions)))
        /\ Ended(doc_run) => doc_run.out = ConcatOutputs(Len(doc.definitions))

C3_Witness ==
    /\ doc = MixedDocument
    /\ Ended(doc_run)
    /\ doc_run.out = <<<<1, 1>>, <<1, 1, 1, 1>>, <<1, 2>>, <<2, 2>>, <<2, 2, 1>>>>

\* Document order of two directives: by owner, then by place in the owner's list.
DirectiveBefore(a, b) == (a[1] = b[1] /\ a[2] < b[2]) \/ PathLess(a[1], b[1])

\* Every directive of every selection reachable from the set at p.
DirectivesUnder(p) ==
    UNION {{<<q, k>> : k \in 1..Len(NodeAt(q).directives)} : q \in SelectionsUnder(p)}

DirectiveNamesOf(ds) == [i \in 1..Len(ds) |-> NodeAt(ds[i][1]).directives[ds[i][2]].name]

\* C4: in what a SetDirectiveIter has yielded, the directives of one selection
\* form one contiguous run in declared order starting at the first, the
\* selections are taken in pre-order, and by the time a directive of a
\* selection is yielded every directive of every selection before it in
\* document order (its ancestors and the earlier siblings' subtrees) has been.
C4_DirectiveRunsInPreOrder ==
    set_directive_iter # None =>
        LET out == dir_run.out
        IN  /\ \A i, j \in 1..Len(out) : i < j => DirectiveBefore(out[i], out[j])
            /\ \A i, j, k \in 1..Len(out) :
                  (i < j /\ j < k /\ out[i][1] = out[k][1]) => out[j][1] = out[i][1]
            /\ \A i \in 1..Len(out) :
                  out[i][2] > 1 => (i > 1 /\ out[i - 1] = <<out[i][1], out[i][2] - 1>>)
            /\ \A j \in 1..Len(out) :
                  \A d \in DirectivesUnder(dir_run.root) :
                      PathLess(d[1], out[j][1]) => \E i \in 1..(j - 1) : out[i] = d

C4_Witness ==
    /\ doc = MixedDocument
    /\ Ended(dir_run)
    /\ dir_run.out = <<<< <<1, 1>>, 1 >>, << <<1, 1>>, 2 >>, << <<1, 1, 1>>, 1 >>,
                       << <<1, 1, 1, 1>>, 1 >>, << <<1, 1, 2>>, 1 >>, << <<1, 1, 2>>, 2 >>>>

\* C5: a SetDirectiveIter that has signalled end has yielded every directive
\* of every Field, InlineFragment and FragmentSpread reachable from its root,
\* each exactly once, so as many items as there are such directives; the
\* query of test_dir_iter gives 2 items, [skip, include].
C5_DirectivesExactlyOnce ==
    set_directive_iter # None =>
        /\ NoDuplicates(dir_run.out)
        /\ Range(dir_run.out) \subseteq DirectivesUnder(dir_run.root)
        /\ Ended(dir_run) =>
              /\ Range(dir_run.out) = DirectivesUnder(dir_run.root)
              /\ Len(dir_run.out) = Cardinality(DirectivesUnder(dir_run.root))
        /\ (doc = TestDirIterDocument /\ Ended(dir_run)) =>
              /\ Len(dir_run.out) = 2
              /\ DirectiveNamesOf(dir_run.out) = <<"skip", "include">>

C5_Witness ==
    /\ doc = TestDirIterDocument
    /\ Ended(dir_run)
    /\ dir_run.out = <<<< <<1, 1, 1>>, 1 >>, << <<1, 1, 2>>, 1 >>>>

\* Whether the set at p holds one selection, a FragmentSpread.
OnlyFragmentSpread(p) ==
    Len(SetAt(p).items) = 1 /\ SetAt(p).items[1].kind = "FragmentSpread"

\* Whether every frame of a stack is over the root set or over the nested set
\* of a Field or InlineFragment.
NoSpreadFrame(stack, root) ==
    \A i \in 1..Len(stack) :
        stack[i].slice # root => NodeAt(stack[i].slice).kind # "FragmentSpread"

\* Whether the selection the top frame of a stack is at is a FragmentSpread.
AtFragmentSpread(stack) ==
    /\ stack # <<>>
    /\ stack[Len(stack)].pos <= Len(SetAt(stack[Len(stack)].slice).items)
    /\ SetAt(stack[Len(stack)].slice).items[stack[Len(stack)].pos].kind = "FragmentSpread"

\* C6: over a set whose only selection is a FragmentSpread a FieldIter yields
\* nothing and a SetDirectiveIter yields the spread's directives in declared
\* order and nothing else; no frame of either engine is over a FragmentSpread,
\* the pass that meets a FragmentSpread leaves the stack as deep as it was, and
\* a SetDirectiveIter that has signalled end has yielded the directives of
\* every FragmentSpread reachable from its root.
C6_FragmentSpread ==
    /\ field_iter # None =>
        /\ OnlyFragmentSpread(field_run.root) => field_run.out = <<>>
        /\ NoSpreadFrame(Unwrap(field_iter).stack, field_run.root)
        /\ AtFragmentSpread(Unwrap(field_iter).stack) =>
              /\ Len(FieldIterStep(Unwrap(field_iter).stack).stack)
                    = Len(Unwrap(field_iter).stack)
              /\ FieldIterStep(Unwrap(field_iter).stack).result = None
    /\ set_directive_iter # None =>
        /\ (OnlyFragmentSpread(dir_run.root) /\ Ended(dir_run)) =>
              dir_run.out =
                  [k \in 1..Len(NodeAt(Append(dir_run.root, 1)).directives) |->
                      <<Append(dir_run.root, 1), k>>]
        /\ NoSpreadFrame(Unwrap(set_directive_iter).stack, dir_run.root)
        /\ AtFragmentSpread(Unwrap(set_directive_iter).stack) =>
              Len(SetDirectiveIterStep(Unwrap(set_directive_iter).stack).stack)
                  = Len(Unwrap(set_directive_iter).stack)
        /\ Ended(dir_run) =>
              \A d \in DirectivesUnder(dir_run.root) :
                  NodeAt(d[1]).kind = "FragmentSpread" => d \in Range(dir_run.out)

C6_Witness ==
    /\ set_directive_iter # None
    /\ OnlyFragmentSpread(dir_run.root)
    /\ Ended(dir_run)
    /\ Len(dir_run.out) = 2

\* C7: an engine over an empty root yields nothing and its first next() call
\* signals end: a FieldIter and a SetDirectiveIter over a SelectionSet without
\* selections, a DocumentFieldIter over a Document without definitions.
C7_EmptyRoot ==
    /\ (field_iter # None /\ SetAt(field_run.root).items = <<>>) =>
          /\ field_run.out = <<>>
          /\ Called(field_run) => (Ended(field_run) /\ field_run.last = None)
    /\ (set_directive_iter # None /\ SetAt(dir_run.root).items = <<>>) =>
          /\ dir_run.out = <<>>
          /\ Called(dir_run) => (Ended(dir_run) /\ dir_run.last = None)
    /\ (doc_field_iter # None /\ doc.definitions = <<>>) =>
          /\ doc_run.out = <<>>
          /\ Called(doc_run) => (Ended(doc_run) /\ doc_run.last = None)

C7_Witness ==
    /\ field_iter # None
    /\ SetAt(field_run.root).items = <<>>
    /\ field_run.nones = 1
    /\ field_run.run = 1

PassesUnder(p) == 2 * Cardinality(SelectionsUnder(p)) + 1

\* The number of items an engine yields is bounded by the size of its root,
\* and so is what one next() call does.
BoundedRuns ==
    /\ field_iter # None =>
        /\ Len(field_run.out) <= Cardinality(FieldsUnder(field_run.root))
        /\ field_run.work <= PassesUnder(field_run.root)
    /\ set_directive_iter # None =>
        /\ Len(dir_run.out) <= Cardinality(DirectivesUnder(dir_run.root))
        /\ dir_run.work <= PassesUnder(dir_run.root)
    /\ doc_field_iter # None =>
        /\ Len(doc_run.out) <= Cardinality(UNION {FieldsUnder(v) : v \in Roots})
        /\ doc_run.built <= Len(doc.definitions)

\* C9: every next() call returns after a number of passes bounded by the size
\* of the root, every engine yields no more items than its root holds, and an
\* engine whose caller keeps calling next() signals end.
C9_Terminates ==
    /\ []BoundedRuns
    /\ (field_iter # None) ~> Ended(field_run)
    /\ (doc_field_iter # None) ~> Ended(doc_run)
    /\ (set_directive_iter # None) ~> Ended(dir_run)

C9_Witness ==
    /\ doc = MixedDocument
    /\ Ended(dir_run)
    /\ Len(dir_run.out) = 6
    /\ dir_run.work = 4

\* Whether a step is a next() call on the engine whose run goes from run to next.
IsCall(run, next) == next.run = run.run /\ next # run

\* C10: an engine that has signalled end has no frame, no directive cursor and
\* no definition left, and every later next() call on it signals end again
\* and yields nothing.
C10_EndIsTerminal ==
    [][/\ Ended(field_run) =>
            /\ Unwrap(field_iter).stack = <<>>
            /\ IsCall(field_run, field_run') =>
                  /\ field_run'.last = None
                  /\ field_run'.out = field_run.out
                  /\ field_run'.nones = field_run.nones + 1
       /\ Ended(dir_run) =>
            /\ Unwrap(set_directive_iter).stack = <<>>
            /\ Unwrap(set_directive_iter).directive_iter = None
            /\ IsCall(dir_run, dir_run') =>
                  /\ dir_run'.last = None
                  /\ dir_run'.out = dir_run.out
                  /\ dir_run'.nones = dir_run.nones + 1
       /\ Ended(doc_run) =>
            /\ Unwrap(doc_field_iter).field_iter = None
            /\ Unwrap(doc_field_iter).doc_iter.pos > Len(doc.definitions)
            /\ IsCall(doc_run, doc_run') =>
                  /\ doc_run'.last = None
                  /\ doc_run'.out = doc_run.out
                  /\ doc_run'.nones = doc_run.nones + 1]_vars

C10_Witness ==
    /\ doc = MixedDocument
    /\ dir_run.nones = MaxEndCalls
    /\ Len(dir_run.out) = 6

RECURSIVE DrainDocument(_, _)
\* The items a DocumentFieldIter yields from its present state until it signals end.
DrainDocument(it, out) ==
    LET r == DocumentFieldIterNext(it)
    IN  IF r.result = None THEN out
        ELSE DrainDocument(r.iter, Append(out, Unwrap(r.result)))

\* The output of a fresh DocumentFieldIter over the document.
DocumentFieldIterOutput == DrainDocument(DocumentFieldIterNew, <<>>)

RECURSIVE DrainDirectives(_, _)
\* The items a SetDirectiveIter yields from its present state until it signals end.
DrainDirectives(it, out) ==
    LET r == SetDirectiveIterNext(it)
    IN  IF r.result = None THEN out
        ELSE DrainDirectives(r.iter, Append(out, Unwrap(r.result)))

\* The output of a fresh SetDirectiveIter over the set at v.
SetDirectiveIterOutput(v) == DrainDirectives(SetDirectiveIterNew(v), <<>>)

\* What each engine held has yielded is what it yields when it runs alone.
YieldsAsAlone ==
    /\ field_iter # None =>
        /\ IsPrefix(field_run.out, FieldIterOutput(field_run.root))
        /\ Ended(field_run) => field_run.out = FieldIterOutput(field_run.root)
    /\ doc_field_iter # None =>
        /\ IsPrefix(doc_run.out, DocumentFieldIterOutput)
        /\ Ended(doc_run) => doc_run.out = DocumentFieldIterOutput
    /\ set_directive_iter # None =>
        /\ IsPrefix(dir_run.out, SetDirectiveIterOutput(dir_run.root))
        /\ Ended(dir_run) => dir_run.out = SetDirectiveIterOutput(dir_run.root)

\* A step leaves the tree alone and touches one engine at most.
TouchesOneEngine ==
    /\ doc' = doc
    /\ <<field_iter, field_run>>' # <<field_iter, field_run>> =>
          UNCHANGED <<doc_field_iter, doc_run, set_directive_iter, dir_run>>
    /\ <<doc_field_iter, doc_run>>' # <<doc_field_iter, doc_run>> =>
          UNCHANGED <<field_iter, field_run, set_directive_iter, dir_run>>
    /\ <<set_directive_iter, dir_run>>' # <<set_directive_iter, dir_run>> =>
          UNCHANGED <<field_iter, field_run, doc_field_iter, doc_run>>

\* C11: with several engines held over one tree and their next() calls
\* interleaved in any order, a call changes the state of the engine it is made
\* on and nothing else (not the tree, not another engine), and every engine
\* yields the sequence it yields when it runs alone.
C11_EnginesIndependent ==
    /\ []YieldsAsAlone
    /\ [][TouchesOneEngine]_vars

C11_Witness ==
    /\ doc = MixedDocument
    /\ field_run.root = <<1>>
    /\ dir_run.root = <<1>>
    /\ field_run.out = <<<<1, 1>>, <<1, 1, 1, 1>>>>
    /\ Len(dir_run.out) = 3
    /\ Len(doc_run.out) = 4

RECURSIVE DepthFrom(_, _)
\* The nesting depth of the selections i, i+1, ... of the set at p: 0 when
\* there is none, and 1 more than the deepest nested set otherwise.
DepthFrom(p, i) ==
    IF i > Len(SetAt(p).items) THEN 0
    ELSE LET q == Append(p, i)
             here == IF NodeAt(q).kind = "FragmentSpread" THEN 1
                     ELSE 1 + DepthFrom(q, 1)
             rest == DepthFrom(p, i + 1)
         IN  IF here > rest THEN here ELSE rest

\* The nesting depth of the set at p.
Depth(p) == DepthFrom(p, 1)

\* Whether no set reachable from the set at p, itself included, holds two selections.
SiblingFree(p) ==
    /\ Len(SetAt(p).items) <= 1
    /\ \A q \in SelectionsUnder(p) :
          NodeAt(q).kind # "FragmentSpread" => Len(SetAt(q).items) <= 1

\* The passes one call makes over a tree of depth d without siblings, at
\* most: one for each selection on the way down and one for each frame popped.
PassesForDepth(d) == 2 * d + 1

\* C12 as stated: the passes one next() call of a FieldIter or a
\* SetDirectiveIter makes are bounded by the nesting depth of its root, however
\* many selections a set holds.
C12_WorkBoundedByDepth ==
    /\ field_iter # None => field_run.work <= PassesForDepth(Depth(field_run.root))
    /\ set_directive_iter # None => dir_run.work <= PassesForDepth(Depth(dir_run.root))

\* C12, amended: the passes of all the next() calls of one run of a FieldIter
\* or a SetDirectiveIter together, and so those of one call, are at most one
\* for each selection reachable from the root and one for each frame; one call
\* passes over every sibling that yields nothing, and only over a root without
\* siblings are its passes bounded by the nesting depth.
C12_WorkBoundedBySize ==
    /\ field_iter # None =>
        /\ field_run.work <= field_run.passes
        /\ field_run.passes <= PassesUnder(field_run.root)
        /\ SiblingFree(field_run.root) =>
              field_run.work <= PassesForDepth(Depth(field_run.root))
    /\ set_directive_iter # None =>
        /\ dir_run.work <= dir_run.passes
        /\ dir_run.passes <= PassesUnder(dir_run.root)
        /\ SiblingFree(dir_run.root) =>
              dir_run.work <= PassesForDepth(Depth(dir_run.root))

C12_Witness ==
    /\ field_iter # None
    /\ Len(SetAt(field_run.root).items) = 3
    /\ Depth(field_run.root) = 1
    /\ field_run.nones = 1
    /\ field_run.out = <<>>
    /\ field_run.work = 4
    /\ field_run.passes = PassesUnder(field_run.root) - 3

\* C13: between two calls the cursor of a SetDirectiveIter is over the
\* directives of the selection entered last, whose nested-set frame, when it
\* is a Field or an InlineFragment, is on top of the stack and untouched; and
\* a next() call made while the cursor has a directive left returns that
\* directive, moves the cursor by one and leaves the stack as it is.
C13_CursorDrainedFirst ==
    [][set_directive_iter # None /\ Unwrap(set_directive_iter).directive_iter # None =>
          LET it == Unwrap(set_directive_iter)
              c == Unwrap(it.directive_iter)
              top == it.stack[Len(it.stack)]
          IN  /\ it.stack # <<>>
              /\ NodeAt(c.slice).kind \in {"Field", "InlineFragment"} =>
                    top = SliceIter(c.slice)
              /\ NodeAt(c.slice).kind = "FragmentSpread" =>
                    Append(top.slice, top.pos - 1) = c.slice
              /\ (DirectiveIterHasNext(it.directive_iter) /\ IsCall(dir_run, dir_run')) =>
                    /\ dir_run'.last = Some(<<c.slice, c.pos>>)
                    /\ dir_run'.work = 0
                    /\ Unwrap(set_directive_iter').stack = it.stack
                    /\ Unwrap(set_directive_iter').directive_iter =
                          Some([c EXCEPT !.pos = c.pos + 1])]_vars

C13_Witness ==
    /\ doc = MixedDocument
    /\ dir_run.out = <<<< <<1, 1>>, 1 >>, << <<1, 1>>, 2 >>>>
    /\ dir_run.work = 0
    /\ Unwrap(set_directive_iter).stack = <<[slice |-> <<1>>, pos |-> 2], SliceIter(<<1, 1>>)>>

\* The number of definitions a DocumentFieldIter has taken from its cursor.
DefinitionsTaken(it) == it.doc_iter.pos - 1

\* C14: a DocumentFieldIter has no sub-engine and an untouched definition
\* cursor until next() is called; the sub-engine it holds is a FieldIter over
\* the definition its cursor took last, as far into its walk as the items
\* yielded say, and every definition before that one has been walked to its
\* end; a call builds one sub-engine for each definition it takes.
C14_SubEnginesOnDemand ==
    [][doc_field_iter # None =>
          LET it == Unwrap(doc_field_iter)
              k == DefinitionsTaken(it)
          IN  /\ k \in 0..Len(doc.definitions)
              /\ ~Called(doc_run) => (it.field_iter = None /\ k = 0)
              /\ it.field_iter # None =>
                    /\ k >= 1
                    /\ Unwrap(it.field_iter).stack[1].slice = <<k>>
                    /\ IsPrefix(ConcatOutputs(k - 1), doc_run.out)
                    /\ doc_run.out \o Drain(Unwrap(it.field_iter), <<>>) = ConcatOutputs(k)
              /\ (it.field_iter = None /\ Called(doc_run)) =>
                    (k = Len(doc.definitions) /\ Ended(doc_run))
              /\ IsCall(doc_run, doc_run') =>
                    /\ DefinitionsTaken(Unwrap(doc_field_iter')) = k + doc_run'.built
                    /\ doc_run'.built > 0 => doc_run.out = ConcatOutputs(k)]_vars

C14_Witness ==
    /\ doc = MixedDocument
    /\ doc_run.out = <<<<1, 1>>, <<1, 1, 1, 1>>, <<1, 2>>, <<2, 2>>>>
    /\ doc_run.built = 1
    /\ DefinitionsTaken(Unwrap(doc_field_iter)) = 2
    /\ Unwrap(doc_field_iter).field_iter # None

\* The frames of a stack are a chain from the root down: the bottom frame is
\* over the root, every other frame over the nested set of the selection the
\* frame below it consumed last.
AncestorChain(root, stack) ==
    /\ stack # <<>> => stack[1].slice = root
    /\ \A i \in 2..Len(stack) :
          /\ stack[i - 1].pos >= 2
          /\ stack[i].slice = Append(stack[i - 1].slice, stack[i - 1].pos - 1)
          /\ NodeAt(stack[i].slice).kind \in {"Field", "InlineFragment"}

\* The top frame of a stack is the untouched frame of a Field without selections.
LeafFrameOnTop(stack) ==
    /\ stack # <<>>
    /\ Len(stack[Len(stack)].slice) > 1
    /\ NodeAt(stack[Len(stack)].slice).kind = "Field"
    /\ SetAt(stack[Len(stack)].slice).items = <<>>

\* C15: the stack of a FieldIter and of a SetDirectiveIter never holds more
\* frames than the nesting depth of the root plus one, and its frames are a
\* chain of ancestors; the Field a FieldIter yielded last has its frame on
\* top, and the frame of a Field without selections is popped by the next
\* pass, which yields nothing and enters nothing.
C15_StackIsAncestorChain ==
    /\ field_iter # None =>
          LET stack == Unwrap(field_iter).stack
          IN  /\ Len(stack) <= Depth(field_run.root) + 1
              /\ AncestorChain(field_run.root, stack)
              /\ field_run.last # None =>
                    stack[Len(stack)] = SliceIter(Unwrap(field_run.last))
              /\ LeafFrameOnTop(stack) =>
                    FieldIterStep(stack) =
                       [stack |-> Front(stack), returns |-> FALSE, result |-> None]
    /\ set_directive_iter # None =>
          LET stack == Unwrap(set_directive_iter).stack
          IN  /\ Len(stack) <= Depth(dir_run.root) + 1
              /\ AncestorChain(dir_run.root, stack)
              /\ LeafFrameOnTop(stack) =>
                    SetDirectiveIterStep(stack) = [stack |-> Front(stack), enters |-> None]

C15_Witness ==
    /\ field_iter # None
    /\ Depth(field_run.root) = 3
    /\ Len(Unwrap(field_iter).stack) = 4
    /\ LeafFrameOnTop(Unwrap(field_iter).stack)
    /\ field_run.last = Some(Unwrap(field_iter).stack[4].slice)

IsField(f) == NodeAt(f).kind = "Field"

\* C16: of the selections whose directives a SetDirectiveIter has made its
\* cursor, the Fields are, in order, a prefix of what a FieldIter over the
\* same root yields, and all of it once the run has ended; by then the
\* selections installed are every selection under the root, each once,
\* InlineFragments and FragmentSpreads included.
C16_DirectiveWalkRefinesFieldWalk ==
    set_directive_iter # None =>
       /\ IsPrefix(SelectSeq(dir_run.installed, IsField), FieldIterOutput(dir_run.root))
       /\ NoDuplicates(dir_run.installed)
       /\ Range(dir_run.installed) \subseteq SelectionsUnder(dir_run.root)
       /\ Ended(dir_run) =>
             /\ SelectSeq(dir_run.installed, IsField) = FieldIterOutput(dir_run.root)
             /\ Range(dir_run.installed) = SelectionsUnder(dir_run.root)

C16_Witness ==
    /\ doc = MixedDocument
    /\ Ended(dir_run)
    /\ dir_run.root = <<1>>
    /\ SelectSeq(dir_run.installed, IsField) = <<<<1, 1>>, <<1, 1, 1, 1>>, <<1, 2>>>>
    /\ \E f \in Range(dir_run.installed) : NodeAt(f).kind = "InlineFragment"
    /\ \E f \in Range(dir_run.installed) : NodeAt(f).kind = "FragmentSpread"

====
